---------------------------- MODULE Spec2Model ----------------------------
(***************************************************************************)
(* A model of node-hotkeys (src/hotkeys.js): the hotkey specification      *)
(* parser, the predicate matcher, the registry (on / remove / handleKeys)  *)
(* and the formatter that turns an event back into a specification string. *)
(*                                                                         *)
(* JavaScript strings are sequences of one-character strings, so that      *)
(* split, trim, indexOf, charCodeAt and join are computed and not assumed. *)
(* JavaScript objects are records; an absent property is an absent field.  *)
(***************************************************************************)
EXTENDS Integers, Sequences, FiniteSets, TLC

VARIABLES
    _registeredHotkeys,  \* src/hotkeys.js:88, the registry, in registration order
    calls,               \* the callback invocations made by the last step
    lastOp,              \* the last call made on the module, with its arguments
    ret,                 \* what that call returned or threw
    _pendingPromise,     \* line 98, the promise getNextHotkey hands out, or null
    _promiseResolve,     \* line 103, the resolver of the promise behind it, or null
    _includingKeydownEvent,  \* line 108
    promises,            \* the promises getNextHotkey has made, by number
    _registeredDebounceListeners,  \* line 93, in registration order
    timers,              \* the pending setTimeout calls of _handleDebounce
    now,                 \* new Date(), in time units
    burst                \* per listener, the characters typed since its last
                         \* callback, each with the time it was typed

waiter == <<_pendingPromise, _promiseResolve, _includingKeydownEvent, promises>>
debouncer == <<_registeredDebounceListeners, timers, now, burst>>

vars == <<_registeredHotkeys, calls, lastOp, ret, waiter, debouncer>>

----------------------------------------------------------------------------
(* JavaScript values that are not 16-bit codes.                            *)

\* the value of a property the object does not have
Undefined == -1

\* "".charCodeAt(0), the code of a character that is not there
NaN == -2

\* charsMap["constructor"]: a property inherited from Object.prototype,
\* a function object, equal to itself only
ObjectConstructor == -3

\* null
Null == -4

\* a != b of JavaScript on these values: NaN differs from everything,
\* itself included; undefined equals undefined; a function equals itself
LooseNotEqual(a, b) == a = NaN \/ b = NaN \/ a # b

\* obj[field], undefined when the object has no such property
Get(obj, field) == IF field \in DOMAIN obj THEN obj[field] ELSE Undefined

----------------------------------------------------------------------------
(* Strings.                                                                *)

\* the characters with codes 32 .. 126, in code order (code 96, the grave
\* accent, is spelled out)
Printable ==
    <<" ","!","\"","#","$","%","&","'","(",")","*","+",",","-",".","/",
      "0","1","2","3","4","5","6","7","8","9",":",";","<","=",">","?","@",
      "A","B","C","D","E","F","G","H","I","J","K","L","M","N","O","P","Q",
      "R","S","T","U","V","W","X","Y","Z","[","\\","]","^","_","grave",
      "a","b","c","d","e","f","g","h","i","j","k","l","m","n","o","p","q",
      "r","s","t","u","v","w","x","y","z","{","|","}","~">>

\* the character String.fromCharCode gives for a code that is no printable
\* character (undefined and NaN give "\u0000")
Unprintable == "\\u0000"

\* the code of one character
CodeOf(c) == 31 + (CHOOSE i \in 1..Len(Printable) : Printable[i] = c)

\* s.charCodeAt(0)
charCodeAt0(s) == IF Len(s) = 0 THEN NaN ELSE CodeOf(s[1])

\* String.fromCharCode(n), a string of one character
fromCharCode(n) ==
    IF n \in 32..126 THEN <<Printable[n - 31]>> ELSE <<Unprintable>>

\* s.toUpperCase()
toUpperCase(s) ==
    [i \in 1..Len(s) |->
        IF CodeOf(s[i]) \in 97..122 THEN Printable[CodeOf(s[i]) - 32 - 31]
        ELSE s[i]]

\* s.match(/[a-z]/i): some character of s is an ASCII letter
matchLetter(s) ==
    \E i \in 1..Len(s) : CodeOf(s[i]) \in (65..90) \cup (97..122)

RECURSIVE trimStart(_)
trimStart(s) ==
    IF Len(s) > 0 /\ s[1] = " " THEN trimStart(Tail(s)) ELSE s

RECURSIVE trimEnd(_)
trimEnd(s) ==
    IF Len(s) > 0 /\ s[Len(s)] = " " THEN trimEnd(SubSeq(s, 1, Len(s) - 1))
    ELSE s

\* s.trim()
trim(s) == trimEnd(trimStart(s))

\* s.indexOf(sub): the 0-based place of the first occurrence, or -1
indexOf(s, sub) ==
    LET at == {i \in 0..(Len(s) - Len(sub)) :
                   SubSeq(s, i + 1, i + Len(sub)) = sub}
    IN  IF at = {} THEN 0 - 1
        ELSE CHOOSE i \in at : \A j \in at : i <= j

\* s.split(sep), sep a non-empty string
RECURSIVE split(_, _)
split(s, sep) ==
    LET i == indexOf(s, sep)
    IN  IF i = 0 - 1 THEN <<s>>
        ELSE <<SubSeq(s, 1, i)>>
                 \o split(SubSeq(s, i + Len(sep) + 1, Len(s)), sep)

\* arr.map(s => s.trim())
mapTrim(arr) == [i \in 1..Len(arr) |-> trim(arr[i])]

\* arr.join(sep)
RECURSIVE join(_, _)
join(arr, sep) ==
    IF Len(arr) = 0 THEN <<>>
    ELSE IF Len(arr) = 1 THEN arr[1]
    ELSE arr[1] \o sep \o join(Tail(arr), sep)

----------------------------------------------------------------------------
(* The named-key table and the parser.                                     *)

charsMap ==
    << [key |-> <<"b","a","c","k","s","p","a","c","e">>, code |-> 8],
       [key |-> <<"t","a","b">>, code |-> 9],
       [key |-> <<"e","n","t","e","r">>, code |-> 13],
       [key |-> <<"c","a","p","s","l","o","c","k">>, code |-> 20],
       [key |-> <<"e","s","c">>, code |-> 27],
       [key |-> <<"p","g","u","p">>, code |-> 33],
       [key |-> <<"s","p","a","c","e">>, code |-> 32],
       [key |-> <<"p","g","d","n">>, code |-> 34],
       [key |-> <<"e","n","d">>, code |-> 35],
       [key |-> <<"h","o","m","e">>, code |-> 36],
       [key |-> <<"l","e","f","t">>, code |-> 37],
       [key |-> <<"u","p">>, code |-> 38],
       [key |-> <<"r","i","g","h","t">>, code |-> 39],
       [key |-> <<"d","o","w","n">>, code |-> 40],
       [key |-> <<"p","r","t","s","c">>, code |-> 44],
       [key |-> <<"i","n","s","e","r","t">>, code |-> 45],
       [key |-> <<"d","e","l","e","t","e">>, code |-> 46],
       [key |-> <<"c","m","d">>, code |-> 91],
       [key |-> <<"F","1">>, code |-> 112],
       [key |-> <<"F","2">>, code |-> 113],
       [key |-> <<"F","3">>, code |-> 114],
       [key |-> <<"F","4">>, code |-> 115],
       [key |-> <<"F","5">>, code |-> 116],
       [key |-> <<"F","6">>, code |-> 117],
       [key |-> <<"F","7">>, code |-> 118],
       [key |-> <<"F","8">>, code |-> 119],
       [key |-> <<"F","9">>, code |-> 120],
       [key |-> <<"F","1","0">>, code |-> 121],
       [key |-> <<"F","1","1">>, code |-> 122],
       [key |-> <<"F","1","2">>, code |-> 123] >>

\* a property charsMap inherits from Object.prototype ("toString", "valueOf"
\* and the other inherited names behave as this one does)
inheritedKey == <<"c","o","n","s","t","r","u","c","t","o","r">>

\* key in charsMap: the in operator sees inherited properties too
inCharsMap(key) ==
    \/ \E i \in 1..Len(charsMap) : charsMap[i].key = key
    \/ key = inheritedKey

\* charsMap[key], for a key in charsMap
charsMapAt(key) ==
    IF key = inheritedKey THEN ObjectConstructor
    ELSE charsMap[CHOOSE i \in 1..Len(charsMap) : charsMap[i].key = key].code

str_plus == <<"p","l","u","s">>
str_shift == <<"s","h","i","f","t">>
str_ctrl == <<"c","t","r","l">>
str_alt == <<"a","l","t">>

\* options.splitKey || "+": an absent or empty splitKey is "+"
splitKeyOf(options) ==
    IF Len(options.splitKey) = 0 THEN <<"+">> ELSE options.splitKey

\* keys of one cmd (lines 124-128): the trimmed sub-keys, or, when the cmd
\* starts with the split key (indexOf is 0, which is falsy), the cmd itself
keysOf(cmd, splitKey) ==
    IF indexOf(cmd, splitKey) # 0
    THEN [array |-> TRUE, items |-> mapTrim(split(cmd, splitKey))]
    ELSE [array |-> FALSE, items |-> cmd]

\* keys[0] == word in place of keys.indexOf(word) != -1
keysHas_firstOnly(keys, word) ==
    IF keys.array THEN keys.items[1] = word
    ELSE indexOf(keys.items, word) = 0

\* keys.indexOf(word) != -1: an element of the array, a substring of the string
keysHas(keys, word) ==
    IF keys.array THEN \E i \in 1..Len(keys.items) : keys.items[i] = word
    ELSE indexOf(keys.items, word) # 0 - 1

\* keys[keys.length - 1]: the last sub-key, or the last character
lastKeyOf(keys) ==
    IF keys.array THEN keys.items[Len(keys.items)]
    ELSE <<keys.items[Len(keys.items)]>>

\* line 157: the main key is none of the known names and has several characters
isInvalidKey(lastKey) ==
    /\ ~inCharsMap(lastKey)
    /\ lastKey # str_plus
    /\ lastKey \notin {str_ctrl, str_shift, str_alt}
    /\ Len(lastKey) > 1

\* mainKeyOf without toUpperCase() at line 162
mainKeyOf_noUpperCase(lastKey, capitalization) ==
    IF inCharsMap(lastKey) THEN [rawcode |-> charsMapAt(lastKey)]
    ELSE IF lastKey = str_plus THEN [keychar |-> CodeOf("+")]
    ELSE IF lastKey = str_shift THEN [rawcode |-> 160]
    ELSE IF lastKey = str_ctrl THEN [rawcode |-> 162]
    ELSE IF lastKey = str_alt THEN [rawcode |-> 164]
    ELSE IF ~capitalization /\ matchLetter(lastKey)
         THEN [rawcode |-> charCodeAt0(lastKey)]
    ELSE [keychar |-> charCodeAt0(lastKey)]

\* lines 139-165: the main key field of the hotkey, for a key that is valid
mainKeyOf(lastKey, capitalization) ==
    IF inCharsMap(lastKey) THEN [rawcode |-> charsMapAt(lastKey)]
    ELSE IF lastKey = str_plus THEN [keychar |-> CodeOf("+")]
    ELSE IF lastKey = str_shift THEN [rawcode |-> 160]
    ELSE IF lastKey = str_ctrl THEN [rawcode |-> 162]
    ELSE IF lastKey = str_alt THEN [rawcode |-> 164]
    ELSE IF ~capitalization /\ matchLetter(lastKey)
         THEN [rawcode |-> charCodeAt0(toUpperCase(lastKey))]
    ELSE [keychar |-> charCodeAt0(lastKey)]

\* lines 130-167: the hotkey of one cmd
hotkeyOf(cmd, options) ==
    LET keys == keysOf(cmd, splitKeyOf(options))
    IN  [hotkeyStr |-> cmd,
         shiftKey |-> keysHas(keys, str_shift),
         altKey |-> keysHas(keys, str_alt),
         ctrlKey |-> keysHas(keys, str_ctrl),
         matchAllModifiers |-> options.matchAllModifiers,
         useKeyDown |-> options.useKeyDown]
        @@ mainKeyOf(lastKeyOf(keys), options.capitalization)

\* line 122
cmdsOf(options) == mapTrim(split(options.hotkeys, <<",">>))

\* _getHotkeysFromOptions: the list of hotkeys, or the error thrown at the
\* first cmd whose main key is invalid (nothing is kept of the cmds before it)
_getHotkeysFromOptions(options) ==
    LET cmds == cmdsOf(options)
        last(i) == lastKeyOf(keysOf(cmds[i], splitKeyOf(options)))
        bad == {i \in 1..Len(cmds) : isInvalidKey(last(i))}
    IN  IF bad # {}
        THEN [threw |-> TRUE,
              key |-> last(CHOOSE i \in bad : \A j \in bad : i <= j)]
        ELSE [threw |-> FALSE,
              hotkeys |-> [i \in 1..Len(cmds) |-> hotkeyOf(cmds[i], options)]]

----------------------------------------------------------------------------
(* The matcher and the formatter.                                          *)

modifiers == <<"altKey", "ctrlKey", "shiftKey">>

\* _testHotkey without the matchAllModifiers branch of lines 194-196
_testHotkey_requiredOnly(hotkey, event) ==
    /\ IF "rawcode" \in DOMAIN hotkey
       THEN ~LooseNotEqual(hotkey.rawcode, Get(event, "rawcode"))
       ELSE ~LooseNotEqual(Get(hotkey, "keychar"), Get(event, "keychar"))
    /\ \A i \in 1..Len(modifiers) :
          ~(hotkey[modifiers[i]] /\ ~event[modifiers[i]])

\* _testHotkey: event is a key event or, in remove, a registered hotkey
_testHotkey(hotkey, event) ==
    /\ IF "rawcode" \in DOMAIN hotkey
       THEN ~LooseNotEqual(hotkey.rawcode, Get(event, "rawcode"))
       ELSE ~LooseNotEqual(Get(hotkey, "keychar"), Get(event, "keychar"))
    /\ \A i \in 1..Len(modifiers) :
          IF hotkey.matchAllModifiers
          THEN hotkey[modifiers[i]] = event[modifiers[i]]
          ELSE ~(hotkey[modifiers[i]] /\ ~event[modifiers[i]])

\* _toHotkeyStr pushing ctrl before alt
_toHotkeyStr_ctrlFirst(event) ==
    LET mods == (IF event.ctrlKey THEN <<str_ctrl>> ELSE <<>>)
                \o (IF event.altKey THEN <<str_alt>> ELSE <<>>)
                \o (IF event.shiftKey THEN <<str_shift>> ELSE <<>>)
        found == {i \in 1..Len(charsMap) :
                      ~LooseNotEqual(charsMap[i].code, event.rawcode)}
        main == IF found # {}
                THEN <<charsMap[CHOOSE i \in found : \A j \in found : i <= j].key>>
                ELSE IF event.keychar = CodeOf("+") THEN <<str_plus>>
                ELSE IF event.rawcode \notin {160, 162, 164}
                     THEN <<fromCharCode(event.keychar)>>
                ELSE <<>>
    IN  join(mods \o main, <<" ","+"," ">>)

\* _toHotkeyStr
_toHotkeyStr(event) ==
    LET mods == (IF event.altKey THEN <<str_alt>> ELSE <<>>)
                \o (IF event.ctrlKey THEN <<str_ctrl>> ELSE <<>>)
                \o (IF event.shiftKey THEN <<str_shift>> ELSE <<>>)
        found == {i \in 1..Len(charsMap) :
                      ~LooseNotEqual(charsMap[i].code, event.rawcode)}
        main == IF found # {}
                THEN <<charsMap[CHOOSE i \in found : \A j \in found : i <= j].key>>
                ELSE IF event.keychar = CodeOf("+") THEN <<str_plus>>
                ELSE IF event.rawcode \notin {160, 162, 164}
                     THEN <<fromCharCode(event.keychar)>>
                ELSE <<>>
    IN  join(mods \o main, <<" ","+"," ">>)

----------------------------------------------------------------------------
(* The registry.                                                           *)

\* registerHotkey, lines 215-226, given the parsed hotkeys: one entry per
\* hotkey carrying the callback, or one entry for the whole list
registeredEntries(hotkeys, options) ==
    IF options.triggerAll
    THEN [i \in 1..Len(hotkeys) |-> hotkeys[i] @@ [callback |-> options.callback]]
    ELSE << [hotkeys |-> hotkeys,
             hotkeyStr |-> trim(options.hotkeys),
             callback |-> options.callback] >>

\* registerHotkey: the registry after on(options), when the parse does not throw
registerHotkey(registry, options) ==
    registry \o registeredEntries(_getHotkeysFromOptions(options).hotkeys, options)

\* remove without line 235
removalOptions_asGiven(options) == options

\* line 235: remove overrides the caller's matchAllModifiers
removalOptions(options) == [options EXCEPT !.matchAllModifiers = TRUE]

\* lines 251-254: the hotkeyStr of the members, joined with ","
rejoined(members) ==
    join([i \in 1..Len(members) |-> members[i].hotkeyStr], <<",">>)

\* the filter callback without lines 251-254: the hotkeyStr of a group stays
\* as registered
RECURSIVE filterEntry_staleText(_, _, _)
filterEntry_staleText(entry, hotkeys, k) ==
    IF k > Len(hotkeys) THEN [keep |-> TRUE, entry |-> entry]
    ELSE IF "hotkeys" \in DOMAIN entry
    THEN LET left == SelectSeq(entry.hotkeys,
                               LAMBDA h : ~_testHotkey(hotkeys[k], h))
         IN  IF Len(left) = 0
             THEN [keep |-> FALSE, entry |-> [entry EXCEPT !.hotkeys = left]]
             ELSE filterEntry_staleText([entry EXCEPT !.hotkeys = left],
                                        hotkeys, k + 1)
    ELSE IF _testHotkey(hotkeys[k], entry)
         THEN [keep |-> FALSE, entry |-> entry]
         ELSE filterEntry_staleText(entry, hotkeys, k + 1)

\* the filter callback without lines 248-249: a group left without hotkeys
\* is kept
RECURSIVE filterEntry_keepsEmpty(_, _, _)
filterEntry_keepsEmpty(entry, hotkeys, k) ==
    IF k > Len(hotkeys) THEN [keep |-> TRUE, entry |-> entry]
    ELSE IF "hotkeys" \in DOMAIN entry
    THEN LET left == SelectSeq(entry.hotkeys,
                               LAMBDA h : ~_testHotkey(hotkeys[k], h))
         IN  filterEntry_keepsEmpty([entry EXCEPT !.hotkeys = left,
                                                  !.hotkeyStr = rejoined(left)],
                                    hotkeys, k + 1)
    ELSE IF _testHotkey(hotkeys[k], entry)
         THEN [keep |-> FALSE, entry |-> entry]
         ELSE filterEntry_keepsEmpty(entry, hotkeys, k + 1)

\* lines 239-261, the filter callback on one entry, from the k-th removal
\* hotkey on: whether the entry is kept, and the entry as the loop left it
RECURSIVE filterEntry(_, _, _)
filterEntry(entry, hotkeys, k) ==
    IF k > Len(hotkeys) THEN [keep |-> TRUE, entry |-> entry]
    ELSE IF "hotkeys" \in DOMAIN entry
    THEN LET left == SelectSeq(entry.hotkeys,
                               LAMBDA h : ~_testHotkey(hotkeys[k], h))
         IN  IF Len(left) = 0
             THEN [keep |-> FALSE, entry |-> [entry EXCEPT !.hotkeys = left]]
             ELSE filterEntry([entry EXCEPT !.hotkeys = left,
                                            !.hotkeyStr = rejoined(left)],
                              hotkeys, k + 1)
    ELSE IF _testHotkey(hotkeys[k], entry)
         THEN [keep |-> FALSE, entry |-> entry]
         ELSE filterEntry(entry, hotkeys, k + 1)

\* removeHotkey: the registry after remove(options), when the parse does not throw
removeHotkey(registry, options) ==
    LET hotkeys == _getHotkeysFromOptions(removalOptions(options)).hotkeys
        done == [i \in 1..Len(registry) |-> filterEntry(registry[i], hotkeys, 1)]
        kept == SelectSeq(done, LAMBDA d : d.keep)
    IN  [i \in 1..Len(kept) |-> kept[i].entry]

\* line 382: !hotkey.useKeyDown, the property of the entry itself
useKeyDownOf(hotkey) ==
    IF "useKeyDown" \in DOMAIN hotkey THEN hotkey.useKeyDown ELSE FALSE

\* lines 382-394: whether handleKeys invokes the callback of this entry
activated(hotkey, event, isDown) ==
    IF isDown /\ ~useKeyDownOf(hotkey) THEN FALSE
    ELSE IF "hotkeys" \in DOMAIN hotkey
    THEN \E i \in 1..Len(hotkey.hotkeys) : _testHotkey(hotkey.hotkeys[i], event)
    ELSE _testHotkey(hotkey, event)

\* what handleKeys passes on for the entries whose places are in fired:
\* hotkey.callback(hotkey.hotkeyStr), with the place of the entry
invocations(registry, fired) ==
    [k \in 1..Len(fired) |->
        [callback |-> registry[fired[k]].callback,
         arg |-> registry[fired[k]].hotkeyStr,
         entry |-> fired[k]]]

\* the places 1 .. n, in order
places(n) == [i \in 1..n |-> i]

\* what the callbacks of the host application do when they are called: "g"
\* registers a hotkey for the A key, "gg" one whose callback registers again,
\* "h" removes the hotkey "a"; any other callback changes nothing
callbackBody(callback) ==
    CASE callback = "g" ->
             [op |-> "on",
              options |-> [hotkeys |-> <<"a">>, splitKey |-> <<>>,
                           capitalization |-> FALSE, triggerAll |-> TRUE,
                           matchAllModifiers |-> FALSE, useKeyDown |-> FALSE,
                           callback |-> "f"]]
      [] callback = "gg" ->
             [op |-> "on",
              options |-> [hotkeys |-> <<"a">>, splitKey |-> <<>>,
                           capitalization |-> FALSE, triggerAll |-> TRUE,
                           matchAllModifiers |-> FALSE, useKeyDown |-> FALSE,
                           callback |-> "gg"]]
      [] callback = "h" ->
             [op |-> "remove",
              options |-> [hotkeys |-> <<"a">>, splitKey |-> <<>>,
                           capitalization |-> FALSE, triggerAll |-> FALSE,
                           matchAllModifiers |-> FALSE, useKeyDown |-> FALSE,
                           callback |-> "none"]]
      [] OTHER -> [op |-> "none"]

\* The loop of line 381 walks the array that _registeredHotkeys held when
\* the loop began: walk. on() pushes to the array that _registeredHotkeys
\* holds (lines 218, 221), which is walk as long as no remove() has put a
\* new array in its place (line 238): shared. remove() changes the groups of
\* the array it filters in place (lines 247, 251); live tells which entries
\* of walk are still in _registeredHotkeys.

\* the loop state after a callback has called on(options)
afterOn(st, options) ==
    LET entries == registeredEntries(_getHotkeysFromOptions(options).hotkeys,
                                     options)
    IN  [st EXCEPT !.registry = registerHotkey(@, options),
                   !.walk = IF st.shared THEN @ \o entries ELSE @,
                   !.live = IF st.shared
                            THEN @ \o [k \in 1..Len(entries) |-> TRUE]
                            ELSE @]

\* the loop state after a callback has called remove(options)
afterRemove(st, options) ==
    LET hotkeys == _getHotkeysFromOptions(removalOptions(options)).hotkeys
        done == [k \in 1..Len(st.walk) |->
                    IF st.live[k] THEN filterEntry(st.walk[k], hotkeys, 1)
                    ELSE [keep |-> FALSE, entry |-> st.walk[k]]]
    IN  [st EXCEPT !.registry = removeHotkey(@, options),
                   !.walk = [k \in 1..Len(st.walk) |-> done[k].entry],
                   !.live = [k \in 1..Len(st.walk) |-> done[k].keep],
                   !.shared = FALSE]

\* line 397: the loop state after the callback of an entry has run
afterCallback(st, body) ==
    IF body.op = "on" THEN afterOn(st, body.options)
    ELSE IF body.op = "remove" THEN afterRemove(st, body.options)
    ELSE st

\* a dispatch is followed for at most MaxCalls callback invocations
MaxCalls == 5

\* lines 381-398 from the entry at place st.i of walk on; cut tells that
\* the loop was still running after MaxCalls invocations
RECURSIVE loop(_, _, _)
loop(st, event, isDown) ==
    IF st.i > Len(st.walk) THEN st
    ELSE IF ~activated(st.walk[st.i], event, isDown)
    THEN loop([st EXCEPT !.i = @ + 1], event, isDown)
    ELSE IF Len(st.calls) >= MaxCalls THEN [st EXCEPT !.cut = TRUE]
    ELSE loop(afterCallback(
                  [st EXCEPT !.calls = @ \o invocations(st.walk, <<st.i>>),
                             !.i = @ + 1],
                  callbackBody(st.walk[st.i].callback)),
              event, isDown)

\* handleKeys leaving the loop of line 381 at the first activated entry
handleKeys_firstOnly(registry, event, isDown) ==
    LET fired == SelectSeq(places(Len(registry)),
                           LAMBDA i : activated(registry[i], event, isDown))
    IN  [calls |-> invocations(registry,
                               IF Len(fired) = 0 THEN fired ELSE <<fired[1]>>),
         registry |-> registry, cut |-> FALSE]

\* handleKeys, lines 381-398: the callback invocations, in order, and the
\* registry the callbacks leave
handleKeys(registry, event, isDown) ==
    loop([walk |-> registry, live |-> [k \in 1..Len(registry) |-> TRUE],
          shared |-> TRUE, registry |-> registry, i |-> 1, calls |-> <<>>,
          cut |-> FALSE],
         event, isDown)

----------------------------------------------------------------------------
(* The next-hotkey waiter, lines 355-370 and 378-379. A promise made by    *)
(* getNextHotkey is the promise that _promiseResolve settles together with *)
(* the promise that .then derives from it, which is the one handed out:    *)
(* state is the state of the first, reacted tells that the .then callback  *)
(* has run and so that the second is fulfilled, with the same value.       *)

\* new Promise(...).then(...), lines 360-366, as getNextHotkey(x) makes it
newPromise(includeKeydownEvent) ==
    [state |-> "pending", value |-> Undefined, reacted |-> FALSE,
     includeKeydownEvent |-> includeKeydownEvent]

\* resolve(value): settles a pending promise, does nothing to a settled one
resolved(ps, k, value) ==
    IF ps[k].state = "pending"
    THEN [ps EXCEPT ![k].state = "fulfilled", ![k].value = value]
    ELSE ps

\* line 378 with _includingKeydownEvent left out: every event resolves
settledBy_anyEvent(ps, resolve, including, event, isDown) ==
    IF resolve # Null THEN resolved(ps, resolve, _toHotkeyStr(event)) ELSE ps

\* lines 378-379: the promises after handleKeys(event, isDown)
settledBy(ps, resolve, including, event, isDown) ==
    IF resolve # Null /\ (~isDown \/ including = TRUE)
    THEN resolved(ps, resolve, _toHotkeyStr(event))
    ELSE ps

\* the .then callbacks that are queued and have not run yet
reactions(ps) ==
    {k \in 1..Len(ps) : ps[k].state = "fulfilled" /\ ~ps[k].reacted}

----------------------------------------------------------------------------
(* The debounce listeners, lines 305-348.                                  *)

\* line 341: the listener debounce(ms, callback) registers; it has no start
newListener(ms, callback) ==
    [triggerTime |-> ms, started |-> FALSE, value |-> <<>>, events |-> <<>>,
     callback |-> callback]

\* listener.start = date
withStart(listener, date) ==
    [f \in DOMAIN listener \cup {"start"} |->
        IF f = "start" THEN date ELSE listener[f]]

\* !listener.start: a Date is truthy, null and undefined are not
notStarted(listener) == Get(listener, "start") \in {Null, Undefined}

\* new Date() - listener.start: null counts as 0
timePassedOf(listener, date) ==
    IF Get(listener, "start") = Null THEN date
    ELSE date - Get(listener, "start")

\* lines 325-332 on one listener
inputTo(listener, event, date) ==
    withStart([listener EXCEPT
                  !.events = Append(@, event),
                  !.value = @ \o fromCharCode(event.keychar)],
              date)

\* _handleInputs, lines 323-333: the listeners after a press event
_handleInputs(listeners, event, date) ==
    [i \in 1..Len(listeners) |-> inputTo(listeners[i], event, date)]

\* _handleInputs without the test of line 328: every press event sets a
\* timer
timersOfInputs_everyInput(listeners, date) ==
    {[listener |-> i, due |-> date + listeners[i].triggerTime] :
        i \in 1..Len(listeners)}

\* the setTimeout calls _handleInputs makes through _handleDebounce, line 329
timersOfInputs(listeners, date) ==
    {[listener |-> i, due |-> date + listeners[i].triggerTime] :
        i \in {j \in 1..Len(listeners) : notStarted(listeners[j])}}

\* the timeout callback flushing whenever it runs, without line 308
flushes_always(listener, date) == TRUE

\* line 308: the timeout callback flushes the listener
flushes(listener, date) ==
    timePassedOf(listener, date) >= listener.triggerTime

\* the listener after its callback was called, without line 310: the text
\* stays in the buffer
flushed_keepsValue(listener) ==
    withStart([listener EXCEPT !.events = <<>>], Null)

\* lines 310-312: the listener after its callback was called
flushed(listener) ==
    withStart([listener EXCEPT !.value = <<>>, !.events = <<>>], Null)

----------------------------------------------------------------------------
(* The callers: what the host application registers and removes, and what  *)
(* the keyboard hook delivers.                                             *)

\* the host application calls on() only while fewer than MaxStanding entries
\* are registered
MaxStanding == 1

\* the user types at most MaxBurst characters between two callbacks of a
\* debounce listener
MaxBurst == 3

str_a == <<"a">>
str_b == <<"b">>
str_ctrl_a == <<"c","t","r","l"," ","+"," ","a">>
str_ctrl_a_a == <<"c","t","r","l"," ","+"," ","a",","," ","a">>
str_a_a == <<"a",","," ","a">>
str_a_foo == <<"a",","," ","f","o","o">>
str_a_constructor == <<"a",","," ","c","o","n","s","t","r","u","c","t","o","r">>
str_foo == <<"f","o","o">>
str_ctrl_shift_a == <<"c","t","r","l"," ","+"," ","s","h","i","f","t"," ","+"," ","a">>

str_ctrl_a_a_b == <<"c","t","r","l"," ","+"," ","a",","," ","a",","," ","b">>
str_empty == <<>>
OnStrings ==
    {str_ctrl_a_a, str_a_a, str_a_foo, str_a_constructor, str_ctrl_shift_a,
     str_ctrl_a_a_b, str_empty}
RemoveStrings == {str_a, str_ctrl_a, str_b, str_a_foo, str_ctrl_a_a, str_empty}
Callbacks == {"f"}

\* the options of an on() or remove() call with the default split key and
\* capitalization
optionsOf(hotkeys, triggerAll, matchAllModifiers, useKeyDown, callback) ==
    [hotkeys |-> hotkeys, splitKey |-> <<>>, capitalization |-> FALSE,
     triggerAll |-> triggerAll, matchAllModifiers |-> matchAllModifiers,
     useKeyDown |-> useKeyDown, callback |-> callback]

OnOptions ==
    {optionsOf(s, t, m, u, cb) :
        s \in OnStrings, t \in BOOLEAN, m \in BOOLEAN, u \in BOOLEAN,
        cb \in Callbacks}

RemoveOptions ==
    {optionsOf(s, FALSE, m, FALSE, "none") : s \in RemoveStrings, m \in BOOLEAN}

\* a key event of the hook: the three modifier flags, keychar and rawcode
\* (a keydown event has no keychar)
eventOf(alt, ctrl, shift, keychar, rawcode) ==
    [altKey |-> alt, ctrlKey |-> ctrl, shiftKey |-> shift,
     keychar |-> keychar, rawcode |-> rawcode]

\* the A key, pressed with and without ctrl and shift
PressEvents ==
    {eventOf(FALSE, c, s, IF s THEN CodeOf("A") ELSE CodeOf("a"), CodeOf("A")) :
        c \in BOOLEAN, s \in BOOLEAN}

DownEvents ==
    {eventOf(FALSE, c, FALSE, Undefined, CodeOf("A")) : c \in BOOLEAN}

----------------------------------------------------------------------------
(* The state machine of the registry.                                      *)

Returned == [threw |-> FALSE]

\* handleKeys had not returned after MaxCalls invocations: its loop is still
\* running
Running == [threw |-> FALSE, running |-> TRUE]

\* nothing else runs while handleKeys is running; the program is not
\* followed further
Hung == ret = Running
Threw(key) == [threw |-> TRUE, key |-> key]

\* what a call returns: a promise of getNextHotkey, by number, or the
\* undefined of a function without a return statement
ReturnedValue(value) == [threw |-> FALSE, value |-> value]

\* calling a property the module does not export:
\* TypeError: hotkeys.removeDebounce is not a function
TypeError == [threw |-> TRUE, error |-> "TypeError"]

\* lines 88-108: no hotkey, no listener, no promise
Init ==
    /\ _registeredHotkeys = <<>>
    /\ calls = <<>>
    /\ lastOp = [op |-> "require"]
    /\ ret = Returned
    /\ _pendingPromise = Null
    /\ _promiseResolve = Null
    /\ _includingKeydownEvent = FALSE
    /\ promises = <<>>
    /\ _registeredDebounceListeners = <<>>
    /\ timers = {}
    /\ now = 0
    /\ burst = <<>>

\* hotkeys.on(options)
On(options) ==
    /\ ~Hung
    /\ Len(_registeredHotkeys) < MaxStanding
    /\ lastOp' = [op |-> "on", options |-> options]
    /\ calls' = <<>>
    /\ LET parsed == _getHotkeysFromOptions(options)
       IN  IF parsed.threw
           THEN /\ ret' = Threw(parsed.key)
                /\ UNCHANGED _registeredHotkeys
           ELSE /\ ret' = Returned
                /\ _registeredHotkeys' = registerHotkey(_registeredHotkeys, options)
    /\ UNCHANGED <<waiter, debouncer>>

\* hotkeys.remove(options)
Remove(options) ==
    /\ ~Hung
    /\ lastOp' = [op |-> "remove", options |-> options]
    /\ calls' = <<>>
    /\ LET parsed == _getHotkeysFromOptions(removalOptions(options))
       IN  IF parsed.threw
           THEN /\ ret' = Threw(parsed.key)
                /\ UNCHANGED _registeredHotkeys
           ELSE /\ ret' = Returned
                /\ _registeredHotkeys' = removeHotkey(_registeredHotkeys, options)
    /\ UNCHANGED <<waiter, debouncer>>

\* handleKeys(event, isDown), lines 377-402, run by the hook as a task of its
\* own: the .then callbacks queued before it have run. Events are followed
\* while at most MaxCalls entries are registered.
Dispatch(event, isDown) ==
    /\ ~Hung
    /\ Len(_registeredHotkeys) <= MaxCalls
    /\ reactions(promises) = {}
    /\ lastOp' = [op |-> "handleKeys", event |-> event, isDown |-> isDown]
    /\ promises' = settledBy(promises, _promiseResolve, _includingKeydownEvent,
                             event, isDown)
    /\ \E done \in {handleKeys(_registeredHotkeys, event, isDown)} :
          /\ calls' = done.calls
          /\ _registeredHotkeys' = done.registry
          /\ ret' = IF done.cut THEN Running ELSE Returned
    /\ IF isDown \/ ret' = Running
       THEN UNCHANGED <<_registeredDebounceListeners, timers, burst>>
       ELSE /\ _registeredDebounceListeners'
                  = _handleInputs(_registeredDebounceListeners, event, now)
            /\ timers' = timers \cup timersOfInputs(_registeredDebounceListeners,
                                                   now)
            /\ burst' = [i \in 1..Len(burst) |->
                            Append(burst[i], [keychar |-> event.keychar,
                                              at |-> now])]
    /\ UNCHANGED <<_pendingPromise, _promiseResolve, _includingKeydownEvent,
                   now>>

\* iohook.on("keypress", ...), line 405; the user types at most MaxBurst
\* characters between two callbacks of a listener, one per time unit
KeyPress(event) ==
    /\ \A i \in 1..Len(burst) :
          /\ Len(burst[i]) < MaxBurst
          /\ burst[i] # <<>> => burst[i][Len(burst[i])].at < now
    /\ Dispatch(event, FALSE)

\* iohook.on("keydown", ...), line 410; a keydown event has no keychar
KeyDown(event) ==
    /\ event.keychar = Undefined
    /\ Dispatch(event, TRUE)

Next ==
    \/ \E options \in OnOptions : On(options)
    \/ \E options \in RemoveOptions : Remove(options)
    \/ \E event \in PressEvents : KeyPress(event)
    \/ \E event \in DownEvents : KeyDown(event)

Spec == Init /\ [][Next]_vars

----------------------------------------------------------------------------
(* The state machine of the next-hotkey waiter: the host application asks  *)
(* for the next hotkey, from its main code or from the callback of a       *)
(* hotkey, and the hook delivers events.                                   *)

\* the host application asks for at most MaxPromises hotkeys
MaxPromises == 2

\* getNextHotkey without lines 357-358: every call makes a promise
GetNextHotkey_alwaysNew(includeKeydownEvent) ==
    /\ Len(promises) < MaxPromises
    /\ lastOp' = [op |-> "getNextHotkey",
                  includeKeydownEvent |-> includeKeydownEvent]
    /\ calls' = <<>>
    /\ _includingKeydownEvent' = includeKeydownEvent
    /\ promises' = Append(promises, newPromise(includeKeydownEvent))
    /\ _promiseResolve' = Len(promises) + 1
    /\ _pendingPromise' = Len(promises) + 1
    /\ ret' = ReturnedValue(Len(promises) + 1)
    /\ UNCHANGED <<_registeredHotkeys, debouncer>>

\* hotkeys.getNextHotkey(includeKeydownEvent), lines 355-370. While a .then
\* callback is queued only a callback that handleKeys is running can call.
GetNextHotkey(includeKeydownEvent) ==
    /\ reactions(promises) # {} => (lastOp.op = "handleKeys" /\ calls # <<>>)
    /\ _pendingPromise # Null \/ Len(promises) < MaxPromises
    /\ lastOp' = [op |-> "getNextHotkey",
                  includeKeydownEvent |-> includeKeydownEvent]
    /\ calls' = <<>>
    /\ _includingKeydownEvent' = includeKeydownEvent
    /\ IF _pendingPromise # Null
       THEN /\ ret' = ReturnedValue(_pendingPromise)
            /\ UNCHANGED <<_pendingPromise, _promiseResolve, promises>>
       ELSE /\ promises' = Append(promises, newPromise(includeKeydownEvent))
            /\ _promiseResolve' = Len(promises) + 1
            /\ _pendingPromise' = Len(promises) + 1
            /\ ret' = ReturnedValue(Len(promises) + 1)
    /\ UNCHANGED <<_registeredHotkeys, debouncer>>

\* the .then callback of lines 362-366, run once the promise is resolved
ThenReaction(k) ==
    /\ k \in reactions(promises)
    /\ lastOp' = [op |-> "then", promise |-> k]
    /\ calls' = <<>>
    /\ _pendingPromise' = Null
    /\ _promiseResolve' = Null
    /\ promises' = [promises EXCEPT ![k].reacted = TRUE]
    /\ ret' = ReturnedValue(promises[k].value)
    /\ UNCHANGED <<_registeredHotkeys, _includingKeydownEvent, debouncer>>

\* the hotkey whose callback asks for the next hotkey
WaitOnOptions == {optionsOf(str_a, TRUE, FALSE, u, "f") : u \in BOOLEAN}

NextWait ==
    \/ \E options \in WaitOnOptions : On(options)
    \/ \E x \in BOOLEAN : GetNextHotkey(x)
    \/ \E event \in PressEvents : KeyPress(event)
    \/ \E event \in DownEvents : KeyDown(event)
    \/ \E k \in 1..MaxPromises : ThenReaction(k)

SpecWait == Init /\ [][NextWait]_vars

----------------------------------------------------------------------------
(* The state machine of a host application whose hotkey callbacks call     *)
(* on() and remove().                                                      *)

CallbackNames == {"f", "g", "gg", "h"}

CallbackOnOptions ==
    {optionsOf(s, t, FALSE, u, cb) :
        s \in {str_a, str_ctrl_a_a}, t \in BOOLEAN, u \in BOOLEAN,
        cb \in CallbackNames}

CallbackRemoveOptions == {optionsOf(str_a, FALSE, FALSE, FALSE, "none")}

NextCallback ==
    \/ \E options \in CallbackOnOptions : On(options)
    \/ \E options \in CallbackRemoveOptions : Remove(options)
    \/ \E event \in PressEvents : KeyPress(event)
    \/ \E event \in DownEvents : KeyDown(event)

SpecCallback == Init /\ [][NextCallback]_vars

----------------------------------------------------------------------------
(* The state machine of the debounce listeners: the host application       *)
(* registers listeners, the user types, time passes and timeouts run.      *)

\* the clock stops at MaxTime
MaxTime == 11

\* the debounce times of the listeners the host application registers, in
\* the order of their registration and in time units of 100 ms
DebounceTimes == <<5, 10>>

\* the host application registers that many listeners
MaxListeners == Len(DebounceTimes)

\* what the user types: a and A
TypedEvents ==
    {eventOf(FALSE, FALSE, s, IF s THEN CodeOf("A") ELSE CodeOf("a"),
             CodeOf("A")) : s \in BOOLEAN}

\* the key-down event of the A key, which comes before its press event
HeldEvents == {eventOf(FALSE, FALSE, FALSE, Undefined, CodeOf("A"))}

\* hotkeys.debounce(ms, callback), lines 340-348: nothing is returned; the
\* host application registers its listeners when it starts
Debounce(ms, callback) ==
    /\ Len(_registeredDebounceListeners) < MaxListeners
    /\ now = 0
    /\ ms = DebounceTimes[Len(_registeredDebounceListeners) + 1]
    /\ lastOp' = [op |-> "debounce", ms |-> ms, callback |-> callback]
    /\ calls' = <<>>
    /\ _registeredDebounceListeners'
           = Append(_registeredDebounceListeners, newListener(ms, callback))
    /\ burst' = Append(burst, <<>>)
    /\ ret' = ReturnedValue(Undefined)
    /\ UNCHANGED <<_registeredHotkeys, waiter, timers, now>>

\* hotkeys.removeDebounce(id): the module exports no such function (lines
\* 417-428), the call throws and nothing is removed
RemoveDebounce(id) ==
    /\ lastOp.op # "removeDebounce"
    /\ lastOp' = [op |-> "removeDebounce", id |-> id]
    /\ calls' = <<>>
    /\ ret' = TypeError
    /\ UNCHANGED <<_registeredHotkeys, waiter, debouncer>>

\* time passes; the clock is read only while a timer is pending, and only
\* through differences, so idle time is not counted
Tick ==
    /\ now < MaxTime
    /\ timers # {}
    /\ now' = now + 1
    /\ UNCHANGED <<_registeredHotkeys, calls, lastOp, ret, waiter,
                   _registeredDebounceListeners, timers, burst>>

\* the callback of setTimeout, lines 306-316, run when the timer is due or
\* later, the timers in the order of their times
Timeout(i, due) ==
    /\ [listener |-> i, due |-> due] \in timers
    /\ due <= now
    /\ \A u \in timers : due <= u.due
    /\ LET t == [listener |-> i, due |-> due]
           listener == _registeredDebounceListeners[i]
       IN  /\ lastOp' = [op |-> "timeout", listener |-> t.listener,
                         due |-> t.due, burst |-> burst[t.listener]]
           /\ IF flushes(listener, now)
              THEN /\ calls' = << [callback |-> listener.callback,
                                   arg |-> listener.value,
                                   events |-> listener.events,
                                   entry |-> t.listener] >>
                   /\ _registeredDebounceListeners'
                          = [_registeredDebounceListeners
                                EXCEPT ![t.listener] = flushed(listener)]
                   /\ timers' = timers \ {t}
                   /\ burst' = [burst EXCEPT ![t.listener] = <<>>]
              ELSE /\ calls' = <<>>
                   /\ timers' = (timers \ {t}) \cup
                          {[listener |-> t.listener,
                            due |-> now + (listener.triggerTime
                                              - timePassedOf(listener, now))]}
                   /\ UNCHANGED <<_registeredDebounceListeners, burst>>
    /\ ret' = Returned
    /\ UNCHANGED <<_registeredHotkeys, waiter, now>>

NextDebounce ==
    \/ \E n \in 1..MaxListeners, callback \in Callbacks :
          Debounce(DebounceTimes[n], callback)
    \/ RemoveDebounce(Undefined)
    \/ \E event \in TypedEvents : KeyPress(event)
    \/ \E event \in HeldEvents : KeyDown(event)
    \/ Tick
    \/ \E i \in 1..MaxListeners, due \in 0..MaxTime : Timeout(i, due)

SpecDebounce == Init /\ [][NextDebounce]_vars

----------------------------------------------------------------------------
(* The parser, the matcher and the formatter on their own: a specification *)
(* string and its options are drawn, parsed, and the hotkeys are tested    *)
(* against, or compared with the formatting of, one key event.             *)

ParseStrings ==
    { <<"a">>,
      <<"A">>,
      <<"a",","," ","A">>,
      <<"a","l","t"," ","+"," ","a">>,
      <<"s","h","i","f","t"," ","+"," ","a">>,
      <<"c","t","r","l"," ","+"," ","a">>,
      <<"c","t","r","l"," ","+"," ","a","l","t"," ","+"," ","a">>,
      <<"s","h","i","f","t"," ","+"," ","a","l","t"," ","+"," ","a">>,
      <<"s","h","i","f","t"," ","+"," ","c","t","r","l"," ","+"," ","a">>,
      <<"s","h","i","f","t"," ","+"," ","c","t","r","l"," ","+"," ","a","l","t"," ","+"," ","a">>,
      <<"a"," ","+"," ","c","t","r","l">>,
      <<"c","t","r","l">>,
      <<"s","h","i","f","t"," ","+"," ","c","t","r","l">>,
      <<"e","n","t","e","r">>,
      <<"c","t","r","l"," ","+"," ","F","1">>,
      <<"l","e","f","t">>,
      <<"p","l","u","s">>,
      <<"s","h","i","f","t"," ","+"," ","p","l","u","s">>,
      <<"+">>,
      <<"s","h","i","f","t"," ","-"," ","+">>,
      <<"p">>,
      <<"s","h","i","f","t"," ","+"," ","P">>,
      <<"f","o","o">>,
      <<"a",","," ","f","o","o">>,
      <<"c","o","n","s","t","r","u","c","t","o","r">>,
      <<>>,
      <<"c","t","r","l"," ","+"," ","+">>,
      <<"a",",">>,
      <<"c","t","r","l"," ","+"," ","a",","," ","a">>,
      <<"c","t","r","l"," ","+"," ","s","h","i","f","t"," ","+"," ","a">>,
      <<"a","l","t"," ","+"," ","c","t","r","l"," ","+"," ","a">> }

ParseOptions ==
    {[optionsOf(s, FALSE, m, FALSE, "none")
        EXCEPT !.splitKey = k, !.capitalization = c] :
        s \in ParseStrings, m \in BOOLEAN, c \in BOOLEAN, k \in {<<>>, <<"-">>}}

\* the keys of the keyboard the hook reports: the name a specification gives
\* the key, and the keychar and rawcode of its events (a key that types no
\* character is reported by keydown events only, which have no keychar)
Keyboard ==
    << [name |-> <<"a">>, keychar |-> 97, rawcode |-> 65],
       [name |-> <<"A">>, keychar |-> 65, rawcode |-> 65],
       [name |-> <<"p">>, keychar |-> 112, rawcode |-> 80],
       [name |-> <<"P">>, keychar |-> 80, rawcode |-> 80],
       [name |-> <<"+">>, keychar |-> 43, rawcode |-> 187],
       [name |-> str_plus, keychar |-> 43, rawcode |-> 187],
       [name |-> <<",">>, keychar |-> 44, rawcode |-> 188],
       [name |-> <<"e","n","t","e","r">>, keychar |-> 13, rawcode |-> 13],
       [name |-> <<"F","1">>, keychar |-> Undefined, rawcode |-> 112],
       [name |-> <<"l","e","f","t">>, keychar |-> Undefined, rawcode |-> 37],
       [name |-> str_shift, keychar |-> Undefined, rawcode |-> 160],
       [name |-> str_ctrl, keychar |-> Undefined, rawcode |-> 162],
       [name |-> str_alt, keychar |-> Undefined, rawcode |-> 164] >>

KeyEvents ==
    {eventOf(a, c, s, Keyboard[i].keychar, Keyboard[i].rawcode) :
        a \in BOOLEAN, c \in BOOLEAN, s \in BOOLEAN, i \in 1..Len(Keyboard)}

Pending == [pending |-> TRUE]

InitParse ==
    /\ _registeredHotkeys = <<>>
    /\ calls = <<>>
    /\ lastOp \in {[op |-> "_getHotkeysFromOptions", options |-> o] :
                      o \in ParseOptions}
    /\ ret = Pending
    /\ _pendingPromise = Null
    /\ _promiseResolve = Null
    /\ _includingKeydownEvent = FALSE
    /\ promises = <<>>
    /\ _registeredDebounceListeners = <<>>
    /\ timers = {}
    /\ now = 0
    /\ burst = <<>>

\* _getHotkeysFromOptions(options)
Parse ==
    /\ ret = Pending
    /\ ret' = [parsed |-> _getHotkeysFromOptions(lastOp.options)]
    /\ UNCHANGED <<_registeredHotkeys, calls, lastOp, waiter, debouncer>>

\* _testHotkey(hotkey, event) for every hotkey of the list
Match(event) ==
    /\ DOMAIN ret = {"parsed"}
    /\ ~ret.parsed.threw
    /\ ret' = [parsed |-> ret.parsed, event |-> event,
               tested |-> [i \in 1..Len(ret.parsed.hotkeys) |->
                              _testHotkey(ret.parsed.hotkeys[i], event)]]
    /\ UNCHANGED <<_registeredHotkeys, calls, lastOp, waiter, debouncer>>

\* _toHotkeyStr(event)
Format(event) ==
    /\ DOMAIN ret = {"parsed"}
    /\ ~ret.parsed.threw
    /\ ret' = [parsed |-> ret.parsed, event |-> event,
               str |-> _toHotkeyStr(event)]
    /\ UNCHANGED <<_registeredHotkeys, calls, lastOp, waiter, debouncer>>

NextParse ==
    \/ Parse
    \/ \E event \in KeyEvents : Match(event)
    \/ \E event \in KeyEvents : Format(event)

SpecParse == InitParse /\ [][NextParse]_vars

----------------------------------------------------------------------------
(* What the claims say, in their own terms.                                *)

ModifierFlags == {"altKey", "ctrlKey", "shiftKey"}

\* the modifiers a predicate requires, the modifiers an event carries
Required(p) == {m \in ModifierFlags : p[m]}
Carried(e) == {m \in ModifierFlags : e[m]}

\* the main key of the predicate is the key of the event
MainKeyMatches(p, e) ==
    IF "rawcode" \in DOMAIN p THEN p.rawcode = e.rawcode
    ELSE p.keychar = e.keychar

\* the predicate matches the event, as the specification defines it
Matches(p, e) ==
    /\ MainKeyMatches(p, e)
    /\ IF p.matchAllModifiers THEN Required(p) = Carried(e)
       ELSE Required(p) \subseteq Carried(e)

\* the main key of a token: its last sub-key
MainKeyToken(token, options) == lastKeyOf(keysOf(token, splitKeyOf(options)))

IsLetter(c) == CodeOf(c) \in (65..90) \cup (97..122)
UpperCode(c) == IF CodeOf(c) \in 97..122 THEN CodeOf(c) - 32 ELSE CodeOf(c)

Parsed == "parsed" \in DOMAIN ret /\ ~ret.parsed.threw
Matched == "tested" \in DOMAIN ret
Formatted == "str" \in DOMAIN ret

----------------------------------------------------------------------------
\* C1: when the main key of a predicate matches an event, the predicate
\* matches the event iff, with matchAllModifiers false, every modifier it
\* requires is on the event and, with matchAllModifiers true, its three flags
\* equal those of the event; so a predicate requiring only ctrl matches a
\* ctrl+shift event under false and not under true.
C1_ModifierPolicy ==
    Matched =>
        \A i \in 1..Len(ret.parsed.hotkeys) :
            LET p == ret.parsed.hotkeys[i]
                e == ret.event
            IN  MainKeyMatches(p, e) =>
                  /\ ret.tested[i] <=>
                        IF p.matchAllModifiers THEN Required(p) = Carried(e)
                        ELSE Required(p) \subseteq Carried(e)
                  /\ (Required(p) = {"ctrlKey"}
                        /\ Carried(e) = {"ctrlKey", "shiftKey"})
                     => (ret.tested[i] <=> ~p.matchAllModifiers)

\* a predicate requiring only ctrl, with matchAllModifiers true, was tested
\* against a ctrl+shift event of its key and did not match
C1_Witness ==
    /\ Matched
    /\ \E i \in 1..Len(ret.parsed.hotkeys) :
          /\ MainKeyMatches(ret.parsed.hotkeys[i], ret.event)
          /\ Required(ret.parsed.hotkeys[i]) = {"ctrlKey"}
          /\ ret.parsed.hotkeys[i].matchAllModifiers
          /\ Carried(ret.event) = {"ctrlKey", "shiftKey"}
          /\ ~ret.tested[i]

----------------------------------------------------------------------------
\* C9: a single ASCII letter as main key gives, with capitalization false,
\* rawcode = the code of the uppercased letter and no keychar, whatever the
\* case of the input, so that "a" and "A" give the same predicate; with
\* capitalization true it gives keychar = the letter's own code and no
\* rawcode, so that "a" and "A" never match the same event.
C9_Capitalization ==
    Parsed =>
        LET hs == ret.parsed.hotkeys
            cap == lastOp.options.capitalization
            K(i) == MainKeyToken(hs[i].hotkeyStr, lastOp.options)
            letter(i) == Len(K(i)) = 1 /\ IsLetter(K(i)[1])
        IN  /\ \A i \in 1..Len(hs) :
                  letter(i) =>
                      IF cap
                      THEN /\ "keychar" \in DOMAIN hs[i]
                           /\ hs[i].keychar = CodeOf(K(i)[1])
                           /\ "rawcode" \notin DOMAIN hs[i]
                      ELSE /\ "rawcode" \in DOMAIN hs[i]
                           /\ hs[i].rawcode = UpperCode(K(i)[1])
                           /\ "keychar" \notin DOMAIN hs[i]
            /\ \A i, j \in 1..Len(hs) :
                  (letter(i) /\ letter(j) /\ K(i) # K(j)
                      /\ UpperCode(K(i)[1]) = UpperCode(K(j)[1])) =>
                      IF cap
                      THEN Matched => ~(ret.tested[i] /\ ret.tested[j])
                      ELSE Required(hs[i]) = Required(hs[j]) =>
                               [hs[i] EXCEPT !.hotkeyStr = <<>>]
                                   = [hs[j] EXCEPT !.hotkeyStr = <<>>]

\* "a, A" was parsed with capitalization, and an event typing "a" matched the
\* first predicate and not the second
C9_Witness ==
    /\ Matched
    /\ lastOp.options.capitalization
    /\ lastOp.options.hotkeys = <<"a",","," ","A">>
    /\ ret.event.keychar = 97
    /\ ret.tested = <<TRUE, FALSE>>

----------------------------------------------------------------------------
\* the names of the modifiers of a predicate, in the order alt, ctrl, shift
ModifierNames(p) ==
    (IF p.altKey THEN <<str_alt>> ELSE <<>>)
    \o (IF p.ctrlKey THEN <<str_ctrl>> ELSE <<>>)
    \o (IF p.shiftKey THEN <<str_shift>> ELSE <<>>)

\* the event carries exactly the modifiers of the predicate and the keychar
\* and rawcode of the key that the main key token K names
IsEventOf(p, K, e) ==
    /\ MainKeyMatches(p, e)
    /\ \E i \in 1..Len(Keyboard) :
          /\ Keyboard[i].name = K
          /\ e = eventOf(p.altKey, p.ctrlKey, p.shiftKey,
                         Keyboard[i].keychar, Keyboard[i].rawcode)

MainAsWritten(K) == <<K>>

\* "+" is written plus, and a bare modifier name is not repeated
MainCanonical(K) ==
    IF K \in {str_alt, str_ctrl, str_shift} THEN <<>>
    ELSE IF K = <<"+">> THEN <<str_plus>>
    ELSE <<K>>

\* the formatting the claim expects of the event of each token, the main key
\* standing as written or in its canonical form
FormatsAs(canonical) ==
    Formatted /\ ~ret.parsed.threw =>
        \A i \in 1..Len(ret.parsed.hotkeys) :
            LET p == ret.parsed.hotkeys[i]
                K == MainKeyToken(p.hotkeyStr, lastOp.options)
            IN  IsEventOf(p, K, ret.event) =>
                    ret.str = join(ModifierNames(p)
                                       \o (IF canonical THEN MainCanonical(K)
                                           ELSE MainAsWritten(K)),
                                   <<" ","+"," ">>)

\* C10, as claimed: the event of a valid token with modifiers M and main key
\* K formats to the names of M in the order alt, ctrl, shift, followed by K,
\* joined by " + ", also when K is a bare modifier name or a named key.
C10_AsClaimed == FormatsAs(FALSE)

\* C10, amended: ... followed by K, except that the character "+" is written
\* "plus" and that a bare modifier name (alt, ctrl, shift) as K adds nothing
\* to the names of M, which already hold it.
C10_Canonical == FormatsAs(TRUE)

\* the token "shift + ctrl + alt + a" was parsed and its event formatted to
\* "alt + ctrl + shift + a"
C10_Witness ==
    /\ Formatted
    /\ lastOp.options.hotkeys = <<"s","h","i","f","t"," ","+"," ","c","t","r","l"," ","+"," ","a","l","t"," ","+"," ","a">>
    /\ IsEventOf(ret.parsed.hotkeys[1], <<"a">>, ret.event)
    /\ ret.str = <<"a","l","t"," ","+"," ","c","t","r","l"," ","+"," ","s","h","i","f","t"," ","+"," ","a">>

----------------------------------------------------------------------------
\* the sub-keys of a token, as written between the split keys
SubKeys(token, options) == mapTrim(split(token, splitKeyOf(options)))

\* the token t is the token s with its sub-keys in another order
Reordered(s, t, options) ==
    LET ks == SubKeys(s, options)
        kt == SubKeys(t, options)
    IN  /\ Len(ks) = Len(kt)
        /\ \A k \in {ks[i] : i \in 1..Len(ks)} \cup {kt[i] : i \in 1..Len(kt)} :
              Cardinality({i \in 1..Len(ks) : ks[i] = k})
                  = Cardinality({i \in 1..Len(kt) : kt[i] = k})

SameLastSubKey(s, t, options) ==
    LET ks == SubKeys(s, options)
        kt == SubKeys(t, options)
    IN  ks[Len(ks)] = kt[Len(kt)]

\* the two predicates have the same main key field and value and the same
\* flags
SamePredicate(p, q) ==
    [p EXCEPT !.hotkeyStr = <<>>] = [q EXCEPT !.hotkeyStr = <<>>]

SingleToken(str) == Len(split(str, <<",">>)) = 1

\* every reordering of the parsed token (one that keeps the last sub-key, if
\* so restricted) parses to the same predicate and matches the same events
OrderIrrelevant(keepLast) ==
    (Parsed /\ SingleToken(lastOp.options.hotkeys)) =>
        \A t \in ParseStrings :
            (/\ SingleToken(t)
             /\ Reordered(lastOp.options.hotkeys, t, lastOp.options)
             /\ keepLast => SameLastSubKey(lastOp.options.hotkeys, t,
                                           lastOp.options)) =>
                \A q \in {_getHotkeysFromOptions(
                             [lastOp.options EXCEPT !.hotkeys = t])} :
                    /\ ~q.threw
                    /\ SamePredicate(ret.parsed.hotkeys[1], q.hotkeys[1])
                    /\ \A e \in KeyEvents :
                          _testHotkey(ret.parsed.hotkeys[1], e)
                              = _testHotkey(q.hotkeys[1], e)

\* C11, as claimed: the order of the sub-keys of a token does not matter:
\* "a + ctrl" parses to the same predicate as "ctrl + a" and matches the same
\* events.
C11_AsClaimed == OrderIrrelevant(FALSE)

\* C11, amended: the last sub-key of a token is its main key and the order
\* of the sub-keys before it does not matter: "shift + ctrl + a" parses to
\* the same predicate as "ctrl + shift + a" and matches the same events.
C11_ModifierOrder == OrderIrrelevant(TRUE)

\* "shift + ctrl + a" was parsed: ctrl and shift required, main key A
C11_Witness ==
    /\ Parsed
    /\ lastOp.options.hotkeys = <<"s","h","i","f","t"," ","+"," ","c","t","r","l"," ","+"," ","a">>
    /\ Len(lastOp.options.splitKey) = 0
    /\ Required(ret.parsed.hotkeys[1]) = {"ctrlKey", "shiftKey"}
    /\ SamePredicate(ret.parsed.hotkeys[1],
                     _getHotkeysFromOptions(
                         [lastOp.options EXCEPT !.hotkeys = <<"c","t","r","l"," ","+"," ","s","h","i","f","t"," ","+"," ","a">>]).hotkeys[1])

----------------------------------------------------------------------------
(* The claims on the registry.                                             *)

IsGroup(x) == "hotkeys" \in DOMAIN x

Dispatched == lastOp.op = "handleKeys"
Pressed == Dispatched /\ ~lastOp.isDown

\* the invocations the last handleKeys made for the entry at place i
CallsOf(i) == {k \in 1..Len(calls) : calls[k].entry = i}

\* the invocations follow the order of the registry
InRegistrationOrder ==
    \A k, l \in 1..Len(calls) : k < l => calls[k].entry <= calls[l].entry

\* the texts passed to the callbacks by the last handleKeys
Args == [k \in 1..Len(calls) |-> calls[k].arg]

\* the entry at place i was invoked n times, with its own text and callback
Invoked(i, n) ==
    /\ Cardinality(CallsOf(i)) = n
    /\ \A k \in CallsOf(i) :
          /\ calls[k].arg = _registeredHotkeys[i].hotkeyStr
          /\ calls[k].callback = _registeredHotkeys[i].callback

\* some member of the group matches the event
SomeMemberMatches(g, e) == \E m \in 1..Len(g.hotkeys) : Matches(g.hotkeys[m], e)

\* the last n entries of the registry
LastEntries(n) ==
    SubSeq(_registeredHotkeys,
           Len(_registeredHotkeys) - n + 1, Len(_registeredHotkeys))

Registered(triggerAll) ==
    /\ lastOp.op = "on"
    /\ ret = Returned
    /\ lastOp.options.triggerAll = triggerAll

\* what on("ctrl + a, a", matchAllModifiers false, triggerAll true) registers
ExampleEntries ==
    << [hotkeyStr |-> <<"c","t","r","l"," ","+"," ","a">>, altKey |-> FALSE, ctrlKey |-> TRUE,
        shiftKey |-> FALSE, matchAllModifiers |-> FALSE, useKeyDown |-> FALSE,
        rawcode |-> 65, callback |-> "f"],
       [hotkeyStr |-> <<"a">>, altKey |-> FALSE, ctrlKey |-> FALSE,
        shiftKey |-> FALSE, matchAllModifiers |-> FALSE, useKeyDown |-> FALSE,
        rawcode |-> 65, callback |-> "f"] >>

\* C2: a registration with triggerAll makes one entry per token, with the
\* token's text and the callback; a press event invokes the callback exactly
\* once for each such entry whose predicate matches, with the token's text,
\* in registration order. After on("ctrl + a, a", matchAllModifiers false) an
\* event {ctrl, rawcode 65} gives "ctrl + a" then "a", and {shift, rawcode 65}
\* gives "a".
C2_TriggerAll ==
    /\ Registered(TRUE) =>
          LET tokens == cmdsOf(lastOp.options)
              new == LastEntries(Len(tokens))
          IN  /\ Len(_registeredHotkeys) >= Len(tokens)
              /\ \A i \in 1..Len(tokens) :
                    /\ ~IsGroup(new[i])
                    /\ new[i].hotkeyStr = tokens[i]
                    /\ new[i].callback = lastOp.options.callback
    /\ Pressed =>
          /\ \A i \in 1..Len(_registeredHotkeys) :
                ~IsGroup(_registeredHotkeys[i]) =>
                    Invoked(i, IF Matches(_registeredHotkeys[i], lastOp.event)
                               THEN 1 ELSE 0)
          /\ InRegistrationOrder
    /\ (Pressed /\ _registeredHotkeys = ExampleEntries
            /\ lastOp.event.rawcode = 65 /\ ~lastOp.event.altKey) =>
          /\ (lastOp.event.ctrlKey /\ ~lastOp.event.shiftKey)
                => Args = <<<<"c","t","r","l"," ","+"," ","a">>, <<"a">> >>
          /\ (lastOp.event.shiftKey /\ ~lastOp.event.ctrlKey)
                => Args = << <<"a">> >>

\* the entries of the example are registered and a press of ctrl + a has
\* invoked the callback with "ctrl + a" and then with "a"
C2_Witness ==
    /\ Pressed
    /\ _registeredHotkeys = ExampleEntries
    /\ Carried(lastOp.event) = {"ctrlKey"}
    /\ Args = <<<<"c","t","r","l"," ","+"," ","a">>, <<"a">> >>

----------------------------------------------------------------------------
\* the predicates of the entry were registered with useKeyDown
DeclaresKeyDown(x) ==
    IF IsGroup(x) THEN \A m \in 1..Len(x.hotkeys) : x.hotkeys[m].useKeyDown
    ELSE x.useKeyDown

\* the key-down gating lets the entry see the last event
Sees(x) == lastOp.isDown => DeclaresKeyDown(x)

\* the group at place i was invoked once, with its display text, if some
\* member matches the last event, and not at all otherwise
FiresAsOr(i) ==
    Invoked(i, IF SomeMemberMatches(_registeredHotkeys[i], lastOp.event)
               THEN 1 ELSE 0)

\* a registration in group mode makes one entry of all the tokens, with the
\* whole specification as display text
RegistersGroup ==
    Registered(FALSE) =>
        /\ Len(_registeredHotkeys) >= 1
        /\ LET g == LastEntries(1)[1]
           IN  /\ IsGroup(g)
               /\ Len(g.hotkeys) = Len(cmdsOf(lastOp.options))
               /\ g.hotkeyStr = trim(lastOp.options.hotkeys)
               /\ g.callback = lastOp.options.callback

\* C3: a registration in group mode fires as a logical OR: for each
\* dispatched event that the key-down gating lets the group see, its callback
\* is invoked exactly once if at least one member matches the event (also
\* when several match) and not at all otherwise, with the display text of
\* the group, the whole specification.
C3_GroupOr ==
    /\ RegistersGroup
    /\ Dispatched =>
          \A i \in 1..Len(_registeredHotkeys) :
              (IsGroup(_registeredHotkeys[i]) /\ Sees(_registeredHotkeys[i]))
                  => FiresAsOr(i)

\* C3, the part the code keeps: the same for press events
C3_GroupOrOnPress ==
    /\ RegistersGroup
    /\ Pressed =>
          \A i \in 1..Len(_registeredHotkeys) :
              IsGroup(_registeredHotkeys[i]) => FiresAsOr(i)

----------------------------------------------------------------------------
EntryMatches(x, e) == IF IsGroup(x) THEN SomeMemberMatches(x, e) ELSE Matches(x, e)

\* C4: on a key-down event an entry is skipped iff its predicates were not
\* registered with useKeyDown: an entry registered with useKeyDown, single or
\* group, fires on a matching key-down event, and one registered without it
\* never fires on a key-down event.
C4_KeyDownGating ==
    (Dispatched /\ lastOp.isDown) =>
        \A i \in 1..Len(_registeredHotkeys) :
            Invoked(i, IF DeclaresKeyDown(_registeredHotkeys[i])
                          /\ EntryMatches(_registeredHotkeys[i], lastOp.event)
                       THEN 1 ELSE 0)

----------------------------------------------------------------------------
\* the two predicates have the same main key: the same field, the same code
SameMainKey(r, x) ==
    \/ /\ "rawcode" \in DOMAIN r /\ "rawcode" \in DOMAIN x
       /\ r.rawcode = x.rawcode
    \/ /\ "keychar" \in DOMAIN r /\ "keychar" \in DOMAIN x
       /\ r.keychar = x.keychar /\ r.keychar # NaN

\* the predicates a remove(options) call names, as the caller gave them
RemovalPredicates(options) == _getHotkeysFromOptions(options).hotkeys

\* some removal predicate has the main key and exactly the modifiers of x
Hit(rs, x) ==
    \E k \in 1..Len(rs) : SameMainKey(rs[k], x) /\ Required(rs[k]) = Required(x)

\* the step is a remove(options) call that returned
Removed == lastOp'.op = "remove" /\ ret' = Returned

Singles(registry) == SelectSeq(registry, LAMBDA x : ~IsGroup(x))

----------------------------------------------------------------------------
\* the members of a group that the removal predicates hit, and the others
HitMembers(rs, g) == SelectSeq(g.hotkeys, LAMBDA m : Hit(rs, m))
OtherMembers(rs, g) == SelectSeq(g.hotkeys, LAMBDA m : ~Hit(rs, m))

\* how many members the claim leaves to a group that is hit: one less, as
\* claimed, or as many as are not hit
LeftTo(rs, g, oneLess) ==
    IF oneLess THEN Len(g.hotkeys) - 1 ELSE Len(OtherMembers(rs, g))

\* whether the entry is still registered after the removal
Survives(rs, x, oneLess) ==
    IF ~IsGroup(x) THEN ~Hit(rs, x)
    ELSE IF Len(HitMembers(rs, x)) = 0 THEN TRUE
    ELSE LeftTo(rs, x, oneLess) > 0

\* the place after the removal of the entry that was at place i
PlaceAfter(rs, registry, i, oneLess) ==
    1 + Cardinality({j \in 1..(i - 1) : Survives(rs, registry[j], oneLess)})

\* removing one predicate from the groups it hits
GroupRemoval(oneLess) ==
    Removed =>
      \A rs \in {RemovalPredicates(lastOp'.options)} :
        Len(rs) = 1 =>
          LET old == _registeredHotkeys
              new == _registeredHotkeys'
          IN  /\ Len(new) = Cardinality({j \in 1..Len(old) :
                                             Survives(rs, old[j], oneLess)})
              /\ \A j \in 1..Len(new) :
                    IsGroup(new[j]) => Len(new[j].hotkeys) > 0
              /\ \A i \in 1..Len(old) :
                    (IsGroup(old[i]) /\ Len(HitMembers(rs, old[i])) > 0
                        /\ Survives(rs, old[i], oneLess)) =>
                        LET at == PlaceAfter(rs, old, i, oneLess)
                        IN  /\ at <= Len(new)
                            /\ IsGroup(new[at])
                            /\ Len(new[at].hotkeys) = LeftTo(rs, old[i], oneLess)
                            /\ oneLess \/ new[at].hotkeys = OtherMembers(rs, old[i])
                            /\ new[at].hotkeyStr
                                   = join([m \in 1..Len(new[at].hotkeys) |->
                                              new[at].hotkeys[m].hotkeyStr],
                                          <<",">>)
                            /\ new[at].callback = old[i].callback

\* C6, as claimed: removing a predicate from a group of size N yields a group
\* of size N-1 with the display text recomputed, or no entry when N = 1,
\* never a group of size 0, also when the group lists a hotkey twice.
C6_AsClaimed == [][GroupRemoval(TRUE)]_vars

\* C6, amended: removing a predicate that matches k >= 1 members of a group
\* of size N yields a group of the N-k other members, in order, with the
\* display text recomputed as their texts joined by ",", or no entry when
\* k = N; never a group of size 0.
C6_GroupRemoval == [][GroupRemoval(FALSE)]_vars

\* remove("a") has left of a group of two the group of its other member
C6_Witness ==
    /\ lastOp.op = "remove"
    /\ lastOp.options.hotkeys = <<"a">>
    /\ Len(_registeredHotkeys) = 1
    /\ IsGroup(_registeredHotkeys[1])
    /\ Len(_registeredHotkeys[1].hotkeys) = 1
    /\ _registeredHotkeys[1].hotkeyStr = <<"c","t","r","l"," ","+"," ","a">>

----------------------------------------------------------------------------
\* no removal predicate matches the entry or a member of it
Untouched(rs, x) ==
    IF IsGroup(x) THEN Len(HitMembers(rs, x)) = 0 ELSE ~Hit(rs, x)

\* C7: remove leaves every entry that matches none of the removal predicates
\* as it was (predicates, display text, callback), and leaves the surviving
\* entries in their order.
C7_Frame ==
    [][Removed =>
      \A rs \in {RemovalPredicates(lastOp'.options)} :
          LET old == _registeredHotkeys
              new == _registeredHotkeys'
          IN  \A i \in 1..Len(old) :
                  Untouched(rs, old[i]) =>
                      LET at == PlaceAfter(rs, old, i, FALSE)
                      IN  at <= Len(new) /\ new[at] = old[i]]_vars

----------------------------------------------------------------------------
\* the named keys of the table
NamedKeys == {charsMap[i].key : i \in 1..Len(charsMap)}

\* a main key of several characters that is no named key, not "plus" and no
\* modifier name
Unresolvable(K) ==
    /\ Len(K) > 1
    /\ K \notin NamedKeys
    /\ K # str_plus
    /\ K \notin {str_alt, str_ctrl, str_shift}

UnresolvableTokens(options) ==
    LET tokens == cmdsOf(options)
    IN  {i \in 1..Len(tokens) : Unresolvable(MainKeyToken(tokens[i], options))}

\* C8: when a token of the specification given to on or remove has an
\* unresolvable main key of several characters, the call raises an error
\* naming it and the registry is as it was before the call.
C8_AtomicFailure ==
    [][(lastOp'.op \in {"on", "remove"}
          /\ UnresolvableTokens(lastOp'.options) # {}) =>
          /\ ret'.threw
          /\ \E i \in UnresolvableTokens(lastOp'.options) :
                ret'.key = MainKeyToken(cmdsOf(lastOp'.options)[i], lastOp'.options)
          /\ _registeredHotkeys' = _registeredHotkeys]_vars

\* C8, the part the code keeps: a call that raises leaves the registry as it
\* was
C8_ThrowKeepsRegistry ==
    [][(lastOp'.op \in {"on", "remove"} /\ ret'.threw) =>
          _registeredHotkeys' = _registeredHotkeys]_vars

----------------------------------------------------------------------------
(* The claims on the next-hotkey waiter.                                   *)

\* the promises handed out and not fulfilled yet
PendingPromises == {k \in 1..Len(promises) : ~promises[k].reacted}

\* the promises whose resolver has not been called yet
Unresolved == {k \in 1..Len(promises) : promises[k].state = "pending"}

\* C12: the waiter is a single slot: while a request is pending every
\* getNextHotkey call returns the promise of the call that created it and
\* makes no other, at most one promise is pending in any state, and all the
\* callers see the same string: a promise is resolved once, with one value,
\* which is the value handed to those who wait for it.
C12_SingleSlot ==
    [][/\ Cardinality(PendingPromises') <= 1
       /\ (lastOp'.op = "getNextHotkey" /\ PendingPromises # {}) =>
             /\ PendingPromises = {ret'.value}
             /\ promises' = promises
       /\ \A k \in 1..Len(promises) :
             promises[k].state = "fulfilled" =>
                 /\ promises'[k].state = "fulfilled"
                 /\ promises'[k].value = promises[k].value
       /\ lastOp'.op = "then" =>
             /\ ret'.value = promises[lastOp'.promise].value
             /\ promises[lastOp'.promise].state = "fulfilled"]_vars

\* a second getNextHotkey call, with another argument than the first, has
\* returned the promise of the first, which is the only one
C12_Witness ==
    /\ lastOp.op = "getNextHotkey"
    /\ Len(promises) = 1
    /\ ret = ReturnedValue(1)
    /\ PendingPromises = {1}
    /\ promises[1].includeKeydownEvent # lastOp.includeKeydownEvent

\* what an event does to the requests whose resolver was not called yet:
\* a key-down event leaves a request made without key-down events as it is,
\* every other event resolves the request with its formatted string
ResolvesAsCreated(k) ==
    IF lastOp'.isDown /\ ~promises[k].includeKeydownEvent
    THEN promises'[k] = promises[k]
    ELSE /\ promises'[k].state = "fulfilled"
         /\ promises'[k].value = _toHotkeyStr(lastOp'.event)

\* C13: with a request created by getNextHotkey(false) pending, key-down
\* events leave it unresolved and the first press event resolves it with the
\* formatted string of that event; with a request created by
\* getNextHotkey(true) the first event of either kind resolves it.
C13_Resolution ==
    [][lastOp'.op = "handleKeys" =>
          \A k \in Unresolved : ResolvesAsCreated(k)]_vars

\* C13, the part the code keeps: the same when no later getNextHotkey call
\* has passed another argument than the call that created the request
C13_ResolutionWithoutLaterCall ==
    [][lastOp'.op = "handleKeys" =>
          \A k \in Unresolved :
              _includingKeydownEvent = promises[k].includeKeydownEvent
                  => ResolvesAsCreated(k)]_vars

\* key-down events resolve the pending request (line 378)
KeyDownResolves == _includingKeydownEvent = TRUE

\* C20: whether key-down events satisfy a pending request is fixed by the
\* call that created it: a later getNextHotkey(x) call made while the
\* request is pending returns the same promise and does not change which
\* kind of event resolves it.
C20_FixedAtCreation ==
    [][(lastOp'.op = "getNextHotkey" /\ Unresolved # {}) =>
          /\ Unresolved = {ret'.value}
          /\ KeyDownResolves' <=> KeyDownResolves
          /\ \A k \in Unresolved :
                KeyDownResolves' <=> promises[k].includeKeydownEvent]_vars

----------------------------------------------------------------------------
(* The claims on the debounce listeners.                                   *)

\* the characters of a burst, in the order they were typed
TextOf(b) == [j \in 1..Len(b) |-> fromCharCode(b[j].keychar)[1]]

TimesOf(b) == [j \in 1..Len(b) |-> b[j].at]

\* the time the last character of the burst was typed
LastTyped(b) == b[Len(b)].at

\* the timers pending for the listener at place i
TimersOf(i) == {t \in timers : t.listener = i}

\* the step is a call or a callback of the given kind, not the clock's
Ran(op) == lastOp'.op = op /\ now' = now

C15_IdsAndRemoval ==
    [][/\ Ran("debounce") =>
             /\ ~ret'.threw
             /\ ret'.value # Undefined
             /\ lastOp.op = "debounce" => ret'.value # ret.value
       /\ Ran("removeDebounce") =>
             /\ ~ret'.threw
             /\ Len(_registeredDebounceListeners) > 0 =>
                   /\ Len(_registeredDebounceListeners')
                         = Len(_registeredDebounceListeners) - 1
                   /\ \A i \in 1..Len(_registeredDebounceListeners') :
                         \E j \in 1..Len(_registeredDebounceListeners) :
                             _registeredDebounceListeners'[i]
                                 = _registeredDebounceListeners[j]]_vars


----------------------------------------------------------------------------
\* a press event: the event of a key that types a character
PressEvent(e) == e.keychar # Undefined

\* the parse of a string with the default options
DefaultParse(str) ==
    _getHotkeysFromOptions(optionsOf(str, FALSE, FALSE, FALSE, "none"))

\* the parse of the string succeeds and yields exactly one predicate, which
\* matches the event
ParsesBackTo(str, e) ==
    LET parsed == DefaultParse(str)
    IN  /\ ~parsed.threw
        /\ Len(parsed.hotkeys) = 1
        /\ Matches(parsed.hotkeys[1], e)
        /\ _testHotkey(parsed.hotkeys[1], e)

\* C16: the formatter is the inverse of the parser: for every press event,
\* with any modifier flags and any character, "," and "+" included, or any
\* named key, the string the formatter returns for it parses with the
\* default options to exactly one predicate, and that predicate matches the
\* event.
C16_FormatterInverse ==
    Formatted /\ PressEvent(ret.event) => ParsesBackTo(ret.str, ret.event)


----------------------------------------------------------------------------
\* the codes an event can carry in keychar or rawcode
Uint16 == 0..65535

\* exactly one of keychar / rawcode is set, and it holds such a code
OneValidCode(p) ==
    /\ ("keychar" \in DOMAIN p) # ("rawcode" \in DOMAIN p)
    /\ "keychar" \in DOMAIN p => p.keychar \in Uint16
    /\ "rawcode" \in DOMAIN p => p.rawcode \in Uint16

\* C19: every predicate of a parse that does not raise has exactly one of
\* keychar / rawcode set, holding a valid 16-bit code that an event can
\* carry, for every specification string, those with an empty token (the
\* empty string, a trailing comma, "ctrl + +") included.
C19_OneValidCode ==
    Parsed => \A i \in 1..Len(ret.parsed.hotkeys) :
                  OneValidCode(ret.parsed.hotkeys[i])


----------------------------------------------------------------------------
\* the source texts of the members of a group, in member order
MemberTexts(g) == [i \in 1..Len(g.hotkeys) |-> g.hotkeys[i].hotkeyStr]

Groups == {i \in 1..Len(_registeredHotkeys) : IsGroup(_registeredHotkeys[i])}

\* C17, as claimed: in every reachable state the display text of every group
\* of the registry is the join with "," of the source texts of its current
\* members, in member order, right after the registration of "ctrl + a, a"
\* as well as after a partial removal.
C17_AsClaimed ==
    \A i \in Groups :
        _registeredHotkeys[i].hotkeyStr
            = join(MemberTexts(_registeredHotkeys[i]), <<",">>)

\* C17, amended: in every reachable state the display text of every group,
\* split at "," with each part trimmed, gives the source texts of its current
\* members in member order; right after a remove call that returned it is
\* exactly their join with ",".
C17_JoinUpToSpaces ==
    \A i \in Groups :
        LET g == _registeredHotkeys[i]
        IN  /\ mapTrim(split(g.hotkeyStr, <<",">>)) = MemberTexts(g)
            /\ lastOp.op = "remove" /\ ret = Returned =>
                   g.hotkeyStr = join(MemberTexts(g), <<",">>)

\* the group of "ctrl + a, a" right after its registration: its display text
\* keeps the space after the comma
C17_Witness ==
    /\ lastOp.op = "on"
    /\ Groups = {1}
    /\ _registeredHotkeys[1].hotkeyStr = str_ctrl_a_a
    /\ MemberTexts(_registeredHotkeys[1]) = <<str_ctrl_a, str_a>>
    /\ _registeredHotkeys[1].hotkeyStr
           # join(MemberTexts(_registeredHotkeys[1]), <<",">>)

----------------------------------------------------------------------------
\* C18: in every reachable state, after any register and remove calls, with
\* the empty string and with removals naming several members of one group
\* among them, no group of the registry has an empty member list: a group
\* whose last member is removed leaves the registry in that remove call.
C18_NoEmptyGroup ==
    \A i \in Groups : Len(_registeredHotkeys[i].hotkeys) > 0

\* remove("ctrl + a, a") has taken two members out of the group of
\* "ctrl + a, a, b", which stays with its third member
C18_Witness ==
    /\ lastOp.op = "remove"
    /\ lastOp.options.hotkeys = str_ctrl_a_a
    /\ Groups = {1}
    /\ MemberTexts(_registeredHotkeys[1]) = <<str_b>>


----------------------------------------------------------------------------
\* the promise the last getNextHotkey call returned
ReturnedPromise == promises[ret.value]

\* C21: the slot is cleared by the dispatch that resolves the pending
\* promise: every getNextHotkey call made after it, from a hotkey callback
\* that the same event fired or before the continuation of the resolved
\* promise has run, returns a new promise, still to be resolved by a later
\* event; no call returns a promise resolved with an event dispatched
\* before the call.
C21_ClearedByDispatch ==
    lastOp.op = "getNextHotkey" => ReturnedPromise.state = "pending"

\* once the .then callback of the resolved promise has run, a call returns
\* a promise that is still pending
C21_ClearedByThen ==
    lastOp.op = "getNextHotkey" /\ reactions(promises) = {} =>
        ReturnedPromise.state = "pending"


----------------------------------------------------------------------------
\* the window stamp of the listener is set: listener.start holds a Date
Stamped(listener) == ~notStarted(listener)

\* C22: in every reachable state and for every debounce listener, at most
\* one timer check is outstanding; one is outstanding iff the window stamp
\* of the listener is set, which holds iff its buffered text and its buffered
\* event list are non-empty; an idle listener has both buffers empty and no
\* check scheduled.
C22_OneCheck ==
    \A i \in 1..Len(_registeredDebounceListeners) :
        LET listener == _registeredDebounceListeners[i]
        IN  /\ Cardinality(TimersOf(i)) <= 1
            /\ TimersOf(i) # {} <=> Stamped(listener)
            /\ Stamped(listener) <=> listener.value # <<>>
            /\ Stamped(listener) <=> listener.events # <<>>
            /\ Len(listener.value) = Len(listener.events)

\* a second character reached a listener whose check was already scheduled:
\* the check set for the first character is still the only one
C22_Witness ==
    /\ lastOp.op = "handleKeys"
    /\ Len(_registeredDebounceListeners) >= 1
    /\ Len(_registeredDebounceListeners[1].value) = 2
    /\ Stamped(_registeredDebounceListeners[1])
    /\ _registeredDebounceListeners[1].start = now
    /\ TimersOf(1) = {[listener |-> 1,
                       due |-> burst[1][1].at
                                 + _registeredDebounceListeners[1].triggerTime]}


----------------------------------------------------------------------------
\* the characters of a list of press events, in order
CharsOf(events) == [j \in 1..Len(events) |-> fromCharCode(events[j].keychar)[1]]

\* what the step typed: the press event it dispatched, if it dispatched one
TypedNow ==
    IF Ran("handleKeys") /\ ~lastOp'.isDown THEN <<lastOp'.event>> ELSE <<>>

\* the calls the step made to the callback of the listener at place i
FlushesNow(i) ==
    IF Ran("timeout")
    THEN SelectSeq(calls', LAMBDA c : c.entry = i)
    ELSE <<>>

RECURSIVE Concat(_, _)
Concat(cs, field) ==
    IF cs = <<>> THEN <<>> ELSE cs[1][field] \o Concat(Tail(cs), field)

\* C23: the debounce engine loses, duplicates and reorders no character:
\* for every listener, in every reachable state, the texts already passed to
\* its callback followed by its buffered text are the characters of all the
\* press events dispatched since it was registered; the event list of a
\* flush has the length and order of its text; key-down events and the
\* flushes of other listeners change nothing. Stated step by step: a
\* listener starts with empty buffers, and over every step what the step
\* passes to the callback followed by the buffer after it is the buffer
\* before it followed by what the step typed, for the text and for the
\* events, the buffered text being the characters of the buffered events.
C23_NothingLost ==
    [][/\ \A i \in 1..Len(_registeredDebounceListeners) :
             LET before == _registeredDebounceListeners[i]
                 after == _registeredDebounceListeners'[i]
             IN  /\ Concat(FlushesNow(i), "arg") \o after.value
                        = before.value \o CharsOf(TypedNow)
                 /\ Concat(FlushesNow(i), "events") \o after.events
                        = before.events \o TypedNow
                 /\ \A k \in 1..Len(FlushesNow(i)) :
                        FlushesNow(i)[k].arg = CharsOf(FlushesNow(i)[k].events)
                 /\ after.value = CharsOf(after.events)
       /\ \A i \in 1..Len(_registeredDebounceListeners') :
             i > Len(_registeredDebounceListeners) =>
                 /\ _registeredDebounceListeners'[i].value = <<>>
                 /\ _registeredDebounceListeners'[i].events = <<>>
      ]_vars

\* the listener of period 5 was passed "aA" and is empty again, while the
\* listener of period 10 still buffers the same two characters
C23_Witness ==
    /\ lastOp.op = "timeout"
    /\ lastOp.listener = 1
    /\ Len(calls) = 1
    /\ calls[1].arg = <<"a", "A">>
    /\ CharsOf(calls[1].events) = <<"a", "A">>
    /\ Len(_registeredDebounceListeners) = 2
    /\ _registeredDebounceListeners[1].value = <<>>
    /\ _registeredDebounceListeners[2].value = <<"a", "A">>


----------------------------------------------------------------------------
\* the invocations of a dispatch that tests each entry of the given registry
\* once, as it is there, in order
SnapshotCalls(registry, event, isDown) ==
    invocations(registry,
                SelectSeq(places(Len(registry)),
                          LAMBDA i : activated(registry[i], event, isDown)))

\* the first n elements of a sequence, or all of it
Prefix(seq, n) == SubSeq(seq, 1, IF n < Len(seq) THEN n ELSE Len(seq))

\* C24: a dispatch works on the registry as it was when the event arrived:
\* when a callback invoked during the dispatch of an event calls on() or
\* remove(), the entries it registers are not invoked for that event and the
\* entries present at the start are each tested once, against their members
\* as they were at the start; so the dispatch makes the invocations that the
\* registry at the start gives, finitely many, also when a callback
\* registers a hotkey that matches the event.
C24_Snapshot ==
    [][Ran("handleKeys") =>
          \A expected \in {SnapshotCalls(_registeredHotkeys, lastOp'.event,
                                         lastOp'.isDown)} :
              /\ ret' # Running
              /\ calls' = expected
              /\ \A k \in 1..Len(calls') :
                     calls'[k].entry <= Len(_registeredHotkeys)
      ]_vars

=============================================================================
